---------------------------- MODULE Spec2Model ----------------------------
(***************************************************************************)
(* Model of the Google Jobs scraper (src/src/main.js): a CheerioCrawler    *)
(* with one requestHandler, a failedRequestHandler and a handler added to  *)
(* crawler.router for the label 'DETAIL', sharing the globals              *)
(* jobsCollected and processedIds.                                         *)
(*                                                                         *)
(* JavaScript runs one handler at a time and switches handlers only at an  *)
(* await.  Every action below is therefore the code between two awaits of  *)
(* one handler invocation: it applies what follows the await it resumes    *)
(* from, runs the synchronous code up to the next await (or to the end of  *)
(* the handler) and performs the call that is awaited there.               *)
(***************************************************************************)
EXTENDS Integers, Sequences, FiniteSets, TLC

\* ------------------------------------------------------------------------
\* Program constants
\* ------------------------------------------------------------------------
maxConcurrency == 3
PageStep == 10
MaxStart == 1000
FewJobs == 5
NumVariants == 4
NumMarkers == 11
MaxTextJobs == 10
DefaultResults == 100

\* ------------------------------------------------------------------------
\* Bounds of the model
\* ------------------------------------------------------------------------
MaxQuota == 2
MaxRetries == 1
MaxDispatch == 5

\* ------------------------------------------------------------------------
\* Values
\* ------------------------------------------------------------------------
\* The 'start' query parameter of a URL as text: absent, empty, not a number
\* ("abc"), or a decimal integer.  Same stands for "as in the requested
\* URL" and NoLink for "no such link in the document".
Absent == [kind |-> "absent", n |-> 0]
Empty == [kind |-> "empty", n |-> 0]
Txt == [kind |-> "text", n |-> 0]
Dec(n) == [kind |-> "int", n |-> n]
Same == [kind |-> "same", n |-> 0]
NoLink == [kind |-> "nolink", n |-> 0]

\* JavaScript numbers as far as the pagination code needs them.
NaN == [nan |-> TRUE, n |-> 0]
Num(n) == [nan |-> FALSE, n |-> n]

\* parseInt(searchParams.get('start') || '0', 10): a missing or empty
\* parameter reads as 0, a non-numeric one as NaN, a decimal one as its value.
ParseStart(raw) ==
    IF raw.kind \in {"absent", "empty"} THEN Num(0)
    ELSE IF raw.kind = "int" THEN Num(raw.n)
    ELSE NaN

\* nextStart.toString() written back with searchParams.set('start', ...).
ToStart(x) == IF x.nan THEN Txt ELSE Dec(x.n)

\* JavaScript's a > b, a >= b and a <= b: false when either side is NaN.
Greater(a, b) == ~a.nan /\ ~b.nan /\ a.n > b.n
AtLeast(a, b) == ~a.nan /\ ~b.nan /\ a.n >= b.n
AtMost(a, b) == ~a.nan /\ ~b.nan /\ a.n <= b.n
Plus(a, k) == IF a.nan THEN NaN ELSE Num(a.n + k)

\* Record ids.  An id read from a data-hveid attribute is Attr(text); an id
\* built from Date.now() and Math.random() is unique to the handler
\* invocation (att) and the position (i) it is generated at.
Attr(text) == [kind |-> "attr", tag |-> text, att |-> 0, i |-> 0]
Fresh(kind, att, i) == [kind |-> kind, tag |-> "", att |-> att, i |-> i]
NoId == [kind |-> "none", tag |-> "", att |-> 0, i |-> 0]
NoSeed == [id |-> NoId, title |-> "", company |-> "", p |-> ""]

\* ------------------------------------------------------------------------
\* Fetched documents
\* ------------------------------------------------------------------------
\* markers : the challengeIndicators (numbered 1..11 in source order) that
\*           match the body
\* host    : host of request.loadedUrl
\* loaded  : the 'start' parameter of request.loadedUrl (Same: that of the
\*           requested URL, anything else: the target of a redirect)
\* next    : for each paginationSelector that matches, in source order, the
\*           'start' parameter of the href of its first element
\* jsonld, appstate, cards : what each strategy finds, in page order
\* text    : for each of the jobPatterns, in source order, its matches in
\*           the body text (title: match[1], company: match[2])
\* dtitle, dcompany : text of the first element the title selectors and the
\*           company selectors of the DETAIL handler find ("" when none)
\* error   : {} when the fetch delivers the document to the handler; else
\*           the fetch fails, and error holds those of the words that
\*           failedRequestHandler looks for which occur in error.message
Doc(markers, host, loaded, next, jsonld, appstate, cards, text, dtitle, dcompany) ==
    [markers |-> markers, host |-> host, loaded |-> loaded, next |-> next,
     jsonld |-> jsonld, appstate |-> appstate, cards |-> cards,
     text |-> text, dtitle |-> dtitle, dcompany |-> dcompany, error |-> {}]

Posting(p, title, company) == [p |-> p, title |-> title, company |-> company]
Card(hveid, title, company, link, p) ==
    [hveid |-> hveid, title |-> title, company |-> company, link |-> link, p |-> p]

EmptyDoc == Doc({}, "www.google.com", Same, <<>>, <<>>, <<>>, <<>>, <<>>, "", "")
JsonLdDoc ==
    Doc({}, "www.google.com", Same, <<Dec(20)>>,
        <<Posting("p1", "Nurse", "Mercy"), Posting("p2", "Staff Nurse", "StDavid")>>,
        <<>>, <<>>, <<>>, "", "")
MixedDoc ==
    Doc({}, "www.google.com", Same, <<>>,
        <<Posting("p1", "Nurse", "Mercy")>>,
        <<Posting("p2", "Staff Nurse", "StDavid")>>,
        <<Card("h1", "Charge Nurse", "Mercy", "L1", "p3")>>, <<>>, "", "")
DomDocA ==
    Doc({}, "www.google.com", Same, <<>>, <<>>, <<>>,
        <<Card("", "ICU Nurse", "Mercy", "L3", "p6")>>, <<>>, "", "")
\* two cards inside one element that carries data-hveid="h1"
DomDocB ==
    Doc({}, "www.google.com", Same, <<Txt>>, <<>>, <<>>,
        <<Card("h1", "Charge Nurse", "Mercy", "L1", "p3"),
          Card("h1", "Night Nurse", "", "L2", "p4")>>, <<>>, "", "")
\* a detail page: its own JobPosting object, a heading and a company line
DetailDoc ==
    Doc({}, "www.google.com", Same, <<>>,
        <<Posting("p3", "Charge Nurse II", "Mercy Health")>>, <<>>, <<>>, <<>>,
        "Charge Nurse II", "Mercy Health")
\* a detail page with the heading "Nurse" and the company line "X"
ShortDetailDoc ==
    Doc({}, "www.google.com", Same, <<>>, <<>>, <<>>, <<>>, <<>>, "Nurse", "X")
TextDoc ==
    Doc({}, "www.google.com", Txt, <<>>, <<>>, <<>>, <<>>,
        <<<<Posting("p5", "Nurse at Mercy", "Mercy")>>>>, "", "")
\* a page of plain text: six lines match the first pattern, five the second
ManyTextDoc ==
    Doc({}, "www.google.com", Txt, <<>>, <<>>, <<>>, <<>>,
        << [k \in 1..6 |-> Posting("p5", "Nurse", "Mercy")],
           [k \in 1..5 |-> Posting("p7", "Staff Nurse", "StDavid")] >>, "", "")
\* a page whose JobPosting object is titled "RN" and whose application
\* state holds an object titled "Job search"
LooseDoc ==
    Doc({}, "www.google.com", Txt, <<>>,
        <<Posting("p8", "RN", "Mercy")>>,
        <<Posting("p9", "Job search", "Google")>>, <<>>, <<>>, "", "")
\* a result page with one JobPosting object and one job card, reached by a
\* redirect to a URL whose 'start' is not a number
OneJobDoc ==
    Doc({}, "www.google.com", Txt, <<>>,
        <<Posting("p1", "Nurse", "Mercy")>>, <<>>,
        <<Card("", "ICU Nurse", "Mercy", "L3", "p6")>>, <<>>, "", "")
\* the same redirect to a page without any job
BlankDoc == Doc({}, "www.google.com", Txt, <<>>, <<>>, <<>>, <<>>, <<>>, "", "")
NegativeDoc == Doc({}, "www.google.com", Dec(-10), <<Dec(-20), Dec(0)>>, <<>>, <<>>, <<>>, <<>>, "", "")
LastDoc == Doc({}, "www.google.com", Dec(1000), <<Dec(990), Dec(2000)>>, <<>>, <<>>, <<>>, <<>>, "", "")
UnusualDoc == Doc({2}, "www.google.com", Same, <<>>, <<>>, <<>>, <<>>, <<>>, "", "")
CaptchaDoc ==
    Doc({5}, "www.google.com", Same, <<>>,
        <<Posting("p1", "Nurse", "Mercy")>>, <<>>, <<>>, <<>>, "", "")
ConsentDoc == Doc({}, "consent.google.com", Same, <<>>, <<>>, <<>>, <<>>, <<>>, "", "")

\* Fetches that fail, by the words of their error message.
FailDoc(words) ==
    [Doc({}, "www.google.com", Same, <<>>, <<>>, <<>>, <<>>, <<>>, "", "") EXCEPT !.error = words]
RateLimitedDoc == FailDoc({"429"})
TimeoutBlockedDoc == FailDoc({"timeout", "403"})
TimeoutDoc == FailDoc({"ETIMEDOUT"})
ServerErrorDoc == FailDoc({"503"})
ConnectionDoc == FailDoc({"ECONNRESET"})
OtherErrorDoc == FailDoc({"other"})

\* A site: the documents it may answer the fetch of a search URL with, and
\* those it may answer the fetch of a link of a job card with.
Site(list, detail) == [list |-> list, detail |-> detail]

Sites ==
    { Site({JsonLdDoc, EmptyDoc}, {DetailDoc}),
      Site({MixedDoc}, {DetailDoc}),
      Site({DomDocA}, {DetailDoc, CaptchaDoc, ConsentDoc}),
      Site({DomDocB}, {DetailDoc, UnusualDoc}),
      Site({TextDoc, UnusualDoc}, {DetailDoc}),
      Site({NegativeDoc}, {DetailDoc}),
      Site({LastDoc}, {DetailDoc}),
      Site({ManyTextDoc}, {DetailDoc}),
      Site({LooseDoc}, {DetailDoc}),
      Site({RateLimitedDoc}, {DetailDoc}),
      Site({TimeoutBlockedDoc}, {DetailDoc}),
      Site({TimeoutDoc}, {DetailDoc}),
      Site({ServerErrorDoc}, {DetailDoc}),
      Site({ConnectionDoc}, {DetailDoc}),
      Site({OtherErrorDoc}, {DetailDoc}),
      Site({ConsentDoc}, {DetailDoc}) }

\* The sites of the runs checked for progress.
FairSites ==
    { Site({EmptyDoc, TextDoc}, {DetailDoc}),
      Site({DomDocB}, {DetailDoc, UnusualDoc}),
      Site({UnusualDoc}, {DetailDoc}),
      Site({RateLimitedDoc}, {DetailDoc}) }

RoutedSites ==
    { Site({DomDocB}, {DetailDoc, EmptyDoc, CaptchaDoc, UnusualDoc}),
      Site({TextDoc}, {DetailDoc}),
      Site({UnusualDoc}, {DetailDoc}),
      Site({DomDocA}, {ShortDetailDoc}),
      Site({RateLimitedDoc}, {DetailDoc}) }

\* ------------------------------------------------------------------------
\* State
\* ------------------------------------------------------------------------
VARIABLES
    RESULTS_WANTED,     \* the effective quota
    maxRequestRetries,  \* the retry ceiling of the crawler
    site,               \* the documents the target site serves in this run
    jobsCollected,      \* counter of emitted records
    processedIds,       \* ids marked as emitted
    sink,               \* the records given to Dataset.pushData
    frontier,           \* the request queue: tasks not yet dispatched
    seen,               \* unique keys of every request ever added to the queue
    inflight,           \* the handler invocations in flight
    retired,            \* the sessions retired so far
    attempts,           \* number of dispatches so far
    visited,            \* unique keys of the tasks dispatched so far
    budget,             \* dispatches explored in this run (bound of the model)
    run,                \* "starting", "rejected", "configured", "running",
                        \* "finished" (crawler.run resolved) or "failed"
    input,              \* what Actor.getInput() returned
    summary             \* the "Total jobs collected" line of the final log

vars == <<RESULTS_WANTED, maxRequestRetries, site, jobsCollected, processedIds,
          sink, frontier, seen, inflight, retired, attempts, visited, budget, run, input, summary>>

\* JavaScript values of the input as far as lines 12-27 tell them apart.  A
\* number is held in halves (twice), so that 2.5 is Half(5); fin is false
\* for NaN, Infinity and -Infinity.
Undefined == [type |-> "undefined", text |-> "", fin |-> FALSE, twice |-> 0]
Null == [type |-> "null", text |-> "", fin |-> FALSE, twice |-> 0]
Str(text) == [type |-> "string", text |-> text, fin |-> FALSE, twice |-> 0]
Half(k) == [type |-> "number", text |-> "", fin |-> TRUE, twice |-> k]
Count(n) == Half(2 * n)
Infinity == [type |-> "number", text |-> "", fin |-> FALSE, twice |-> 0]

\* Number.MAX_SAFE_INTEGER, kept as a value of its own.
MAX_SAFE_INTEGER == [type |-> "number", text |-> "MAX_SAFE_INTEGER", fin |-> TRUE, twice |-> 0]

\* "results_wanted: RESULTS_WANTED_RAW = 100" and "keyword = ''": the
\* default of a destructured property replaces undefined only.
Default(v, d) == IF v.type = "undefined" THEN d ELSE v

\* Unary plus.  null and '' give 0, a numeric string its number, any other
\* string and undefined give NaN, which is held as the non-finite Infinity
\* (Number.isFinite tells neither apart).
ToNumber(v) ==
    IF v.type = "number" THEN v
    ELSE IF v.type = "null" THEN Count(0)
    ELSE IF v.type = "string" /\ v.text = "" THEN Count(0)
    ELSE IF v.type = "string" /\ v.text = "2" THEN Count(2)
    ELSE Infinity

\* Number.isFinite(+RESULTS_WANTED_RAW) ? Math.max(1, +RESULTS_WANTED_RAW)
\*                                       : Number.MAX_SAFE_INTEGER
ResultsWanted(raw) ==
    LET x == ToNumber(Default(raw, Count(DefaultResults)))
    IN IF x.fin THEN (IF x.twice < 2 THEN Count(1) ELSE x) ELSE MAX_SAFE_INTEGER

\* A check that lets every keyword but a missing one pass.
Defined(v) == v.type \notin {"undefined", "null"}

\* JavaScript truthiness, as "!keyword" uses it.
Truthy(v) ==
    \/ v.type = "string" /\ v.text # ""
    \/ v.type = "number" /\ ~(v.fin /\ v.twice = 0)

\* The documents the site may answer the fetch of a task with
Served(task) == IF task.label = "DETAIL" THEN site.detail ELSE site.list

Sessions == 1..(MaxDispatch + 3)

\* A request: retries is request.retryCount; last tells which session the
\* latest failed attempt used and the words of its error message.
NoLast == [sess |-> 0, error |-> {}]
ListTask(variant, start, initial) ==
    [label |-> "LIST", variant |-> variant, start |-> start, link |-> "",
     initial |-> initial, retries |-> 0, seed |-> NoSeed, last |-> NoLast,
     chips |-> ""]
DetailTask(link, seed) ==
    [label |-> "DETAIL", variant |-> 0, start |-> Absent, link |-> link,
     initial |-> FALSE, retries |-> 0, seed |-> seed, last |-> NoLast,
     chips |-> ""]

\* The request queue identifies a request by its URL.
Key(t) ==
    IF t.label = "DETAIL" THEN <<"DETAIL", 0, Absent, t.link>>
    ELSE <<"LIST", t.variant, t.start, "">>

\* startUrls.map(...): one LIST task per URL variant, none with a 'start'.
initialRequests == [v \in 1..NumVariants |-> ListTask(v, Absent, TRUE)]

\* dateMap[date] of URL variant 1 ("" when the map has no such key).
dateMap(date) ==
    IF date = Str("24h") THEN "date_posted:r_86400"
    ELSE IF date = Str("7d") THEN "date_posted:r_604800"
    ELSE IF date = Str("30d") THEN "date_posted:r_2592000"
    ELSE ""

\* buildStartUrls(keyword, location, posted_date) as requests: variant 1
\* gets the parameter 'chips' if (date && date !== 'anytime') and dateMap
\* knows the date; variants 2 and 4 get no date filter, variant 3 a
\* parameter 'date' and no 'chips'.
buildStartUrls(date) ==
    [v \in 1..NumVariants |->
        [ListTask(v, Absent, TRUE) EXCEPT
            !.chips = IF v = 1 /\ Truthy(date) /\ date # Str("anytime")
                      THEN dateMap(date) ELSE ""]]

Start ==
    /\ jobsCollected = 0
    /\ processedIds = {}
    /\ sink = {}
    /\ frontier = initialRequests
    /\ seen = {Key(initialRequests[v]) : v \in 1..NumVariants}
    /\ inflight = {}
    /\ retired = {}
    /\ attempts = 0
    /\ visited = {}
    /\ run = "running"
    /\ input = [keyword |-> Str("nurse"), results_wanted |-> Count(RESULTS_WANTED),
                posted_date |-> Str("anytime")]
    /\ summary = <<>>

Init ==
    /\ RESULTS_WANTED \in 1..MaxQuota
    /\ maxRequestRetries = MaxRetries
    /\ site \in Sites
    /\ budget = MaxDispatch
    /\ Start

\* ------------------------------------------------------------------------
\* Extraction (requestHandler)
\* ------------------------------------------------------------------------
RECURSIVE SelectSeq2(_, _)
\* seq.filter(...) with the position-independent test Keep given as a set
SelectSeq2(seq, keep) ==
    IF seq = <<>> THEN <<>>
    ELSE IF Head(seq) \in keep THEN <<Head(seq)>> \o SelectSeq2(Tail(seq), keep)
    ELSE SelectSeq2(Tail(seq), keep)

Range(seq) == {seq[k] : k \in 1..Len(seq)}

\* text.includes(word), on the texts that occur in the documents above
Includes(text, word) ==
    <<text, word>> \in
      { <<"Job search", "search">>, <<"Next page", "next page">>,
        <<"3 days ago", "ago">> }

\* /^\d+\s*(minutes?|hours?|days?|weeks?|months?)\s+ago$/
IsRelativeTime(text) == text \in {"3 days ago"}

\* extractJobsFromData: a JobPosting object becomes a job when its title is
\* truthy; every job gets a newly generated id.
JsonLdJobs(wk) ==
    LET found == SelectSeq2(wk.page.jsonld, {c \in Range(wk.page.jsonld) : c.title # ""})
    IN [k \in 1..Len(found) |->
          [id |-> Fresh("jsonld", wk.att, k), p |-> found[k].p,
           title |-> found[k].title, company |-> found[k].company]]

\* findJobs: an object with a title and a company becomes a job.
AppStateJobs(wk) ==
    LET found == SelectSeq2(wk.page.appstate,
                    {c \in Range(wk.page.appstate) : c.title # "" /\ c.company # ""})
    IN [k \in 1..Len(found) |->
          [id |-> Fresh("appstate", wk.att, k), p |-> found[k].p,
           title |-> found[k].title, company |-> found[k].company]]

\* A while loop that stops at MaxTextJobs matches of its own pattern.
PushPerPattern(found, matches) ==
    found \o SubSeq(matches, 1, IF Len(matches) < MaxTextJobs THEN Len(matches) ELSE MaxTextJobs)

\* The while loop of one pattern: its matches with a title of 4..99
\* characters are pushed while textBasedJobs.length < 10.
PushMatches(found, matches) ==
    LET room == MaxTextJobs - Len(found)
    IN found \o SubSeq(matches, 1, IF Len(matches) < room THEN Len(matches) ELSE room)

RECURSIVE textBasedJobs(_, _)
\* for (const pattern of jobPatterns) { while (...) { ... } }
textBasedJobs(patterns, found) ==
    IF patterns = <<>> THEN found
    ELSE textBasedJobs(Tail(patterns),
           PushMatches(found,
              SelectSeq2(Head(patterns),
                 {c \in Range(Head(patterns)) :
                     c.title # "" /\ Len(c.title) > 3 /\ Len(c.title) < 100})))

\* Text fallback: the jobs of textBasedJobs, each with a newly generated id.
TextJobs(wk) ==
    LET kept == textBasedJobs(wk.page.text, <<>>)
    IN [k \in 1..Len(kept) |->
          [id |-> Fresh("text", wk.att, k), p |-> kept[k].p,
           title |-> kept[k].title, company |-> kept[k].company]]

\* jobId of DOM card i: its data-hveid, else `job_${i}_${Date.now()}`.
JobId(card, att, i) == IF card.hveid # "" THEN Attr(card.hveid) ELSE Fresh("job", att, i)

\* The title a card yields: the text of its title element if it passes the
\* checks of the titleSelectors loop, else null ("").
DomTitle(card) ==
    IF /\ card.title # ""
       /\ Len(card.title) > 3 /\ Len(card.title) < 200
       /\ ~Includes(card.title, "google.com")
       /\ ~Includes(card.title, "search")
       /\ ~IsRelativeTime(card.title)
    THEN card.title ELSE ""

\* "if (detailLink && title && title.length > 3)" and isValidJobTitle
CardEnqueues(card) ==
    LET title == DomTitle(card) IN
    /\ card.link # ""
    /\ title # "" /\ Len(title) > 3
    /\ ~Includes(title, "google.com") /\ ~Includes(title, "search")
    /\ ~Includes(title, "next page") /\ ~Includes(title, "previous page")
    /\ Len(title) < 200

\* jobData of the DETAIL request enqueued for the card
SeedOf(card, att, i) ==
    [id |-> JobId(card, att, i), title |-> DomTitle(card),
     company |-> IF card.company # "" THEN card.company ELSE "Not specified",
     p |-> card.p]

\* ------------------------------------------------------------------------
\* Challenge detection (requestHandler)
\* ------------------------------------------------------------------------
challengeIndicators == 1..NumMarkers
GateHosts == {"sorry.google.com", "consent.google.com"}

\* A detection that looks at the URL only.
RedirectOnly(page) == page.host \in GateHosts

challengeDetected(page) ==
    \/ page.markers \cap challengeIndicators # {}
    \/ page.host \in GateHosts

\* ------------------------------------------------------------------------
\* Pagination (requestHandler)
\* ------------------------------------------------------------------------
LoadedStart(wk) == IF wk.page.loaded = Same THEN wk.task.start ELSE wk.page.loaded
currentStart(wk) == ParseStart(LoadedStart(wk))

\* request.loadedUrl, as far as the request queue tells URLs apart.
loadedUrl(wk) == Key([wk.task EXCEPT !.start = LoadedStart(wk)])

\* The next-page lookup without the check that the link leads further.
FirstHref(hrefs, cur) == IF hrefs = <<>> THEN NoLink ELSE Head(hrefs)

RECURSIVE FirstLater(_, _)
\* The first pagination href whose 'start' is greater than cur, or NoLink.
FirstLater(hrefs, cur) ==
    IF hrefs = <<>> THEN NoLink
    ELSE IF Greater(ParseStart(Head(hrefs)), cur) THEN Head(hrefs)
    ELSE FirstLater(Tail(hrefs), cur)

\* The 'start' parameter of nextPageLink, or NoLink when nextPageLink is null.
nextPageLink(wk) ==
    LET cur == currentStart(wk)
        explicit == FirstLater(wk.page.next, cur)
        nextStart == Plus(cur, PageStep)
    IN IF explicit # NoLink THEN explicit
       ELSE IF AtLeast(cur, Num(0)) /\ AtMost(nextStart, Num(MaxStart)) THEN ToStart(nextStart)
       ELSE NoLink

\* userData.urlVariant || 1
VariantOf(task) == IF task.variant = 0 THEN 1 ELSE task.variant

\* buildStartUrls(keyword, location, posted_date).slice(1) as LIST requests
alternativeRequests == [k \in 1..(NumVariants - 1) |-> ListTask(k + 1, Absent, TRUE)]

\* ------------------------------------------------------------------------
\* The synchronous run of requestHandler up to its next await
\* ------------------------------------------------------------------------
PushPcs == {"push_jsonld", "push_appstate", "push_text"}
Stop(pc, i) == [pc |-> pc, i |-> i]

\* No strategy finds a job in the page of wk.
NoCandidates(wk) ==
    /\ Len(JsonLdJobs(wk)) = 0 /\ Len(AppStateJobs(wk)) = 0
    /\ \A i \in 1..Len(wk.page.cards) : ~CardEnqueues(wk.page.cards[i])
    /\ Len(TextJobs(wk)) = 0

\* A pagination gate that also asks for a job found on the page.
PaginationOnJobs(wk, jc) ==
    wk.task.label # "DETAIL" /\ jc < RESULTS_WANTED /\ ~NoCandidates(wk)

\* A pagination gate that does not look at the label of the request.
PaginationAnyLabel(wk, jc) == jc < RESULTS_WANTED

\* request.userData.label !== 'DETAIL' && jobsCollected < RESULTS_WANTED
PaginationRuns(wk, jc) == wk.task.label # "DETAIL" /\ jc < RESULTS_WANTED

RECURSIVE Advance(_, _, _, _, _)
\* Where the handler invocation wk, about to execute `phase` at index i with
\* the globals jc (jobsCollected) and pids (processedIds), suspends next.
Advance(wk, phase, i, jc, pids) ==
    CASE phase = "jsonld" ->
           IF i > Len(JsonLdJobs(wk)) \/ jc >= RESULTS_WANTED
           THEN Advance(wk, "appstate", 1, jc, pids)
           ELSE IF JsonLdJobs(wk)[i].id \notin pids THEN Stop("push_jsonld", i)
           ELSE Advance(wk, "jsonld", i + 1, jc, pids)
      [] phase = "appstate" ->
           IF i > Len(AppStateJobs(wk)) \/ jc >= RESULTS_WANTED
           THEN Advance(wk, "dom", 1, jc, pids)
           ELSE IF AppStateJobs(wk)[i].id \notin pids THEN Stop("push_appstate", i)
           ELSE Advance(wk, "appstate", i + 1, jc, pids)
      [] phase = "dom" ->
           IF ~(i <= Len(wk.page.cards) /\ jc < RESULTS_WANTED)
           THEN Advance(wk, "textgate", 1, jc, pids)
           ELSE IF JobId(wk.page.cards[i], wk.att, i) \in pids
           THEN Advance(wk, "dom", i + 1, jc, pids)
           ELSE IF CardEnqueues(wk.page.cards[i]) THEN Stop("add_detail", i)
           ELSE Advance(wk, "dom", i + 1, jc, pids)
      [] phase = "textgate" ->
           IF /\ jc < RESULTS_WANTED
              /\ Len(JsonLdJobs(wk)) = 0 /\ Len(AppStateJobs(wk)) = 0
              /\ Len(wk.page.cards) = 0
           THEN Advance(wk, "text", 1, jc, pids)
           ELSE Advance(wk, "pagination", 1, jc, pids)
      [] phase = "text" ->
           IF i > Len(TextJobs(wk)) \/ jc >= RESULTS_WANTED
           THEN Advance(wk, "pagination", 1, jc, pids)
           ELSE IF TextJobs(wk)[i].id \notin pids THEN Stop("push_text", i)
           ELSE Advance(wk, "text", i + 1, jc, pids)
      [] phase = "pagination" ->
           IF PaginationRuns(wk, jc)
           THEN IF nextPageLink(wk) # NoLink THEN Stop("add_next", 1)
                ELSE IF wk.task.initial /\ jc < FewJobs /\ wk.task.variant = 1
                THEN Stop("add_alt", 1)
                ELSE Stop("end", 0)
           ELSE Stop("end", 0)

\* The job handed to Dataset.pushData at the await the handler stops at.
JobAt(wk, stop) ==
    CASE stop.pc = "push_jsonld" -> JsonLdJobs(wk)[stop.i]
      [] stop.pc = "push_appstate" -> AppStateJobs(wk)[stop.i]
      [] stop.pc = "push_text" -> TextJobs(wk)[stop.i]

MethodOf(pc) ==
    CASE pc = "push_jsonld" -> "json-ld"
      [] pc = "push_appstate" -> "app-state"
      [] pc = "push_text" -> "text-parsing"

finalJob(wk, stop) ==
    LET job == JobAt(wk, stop) IN
    [id |-> job.id, p |-> job.p, title |-> job.title, company |-> job.company,
     method |-> MethodOf(stop.pc), att |-> wk.att, scrapedUrl |-> loadedUrl(wk)]

\* The requests handed to crawler.addRequests at the await the handler stops at.
Requested(wk, stop) ==
    CASE stop.pc = "add_detail" ->
           <<DetailTask(wk.page.cards[stop.i].link, SeedOf(wk.page.cards[stop.i], wk.att, stop.i))>>
      [] stop.pc = "add_next" -> <<ListTask(VariantOf(wk.task), nextPageLink(wk), FALSE)>>
      [] stop.pc = "add_alt" -> alternativeRequests
      [] OTHER -> <<>>

RECURSIVE addRequests(_, _, _)
\* crawler.addRequests: a request whose URL the queue has seen is dropped.
\* The result is the queue and the set of keys after the call.
addRequests(queue, keys, reqs) ==
    IF reqs = <<>> THEN [queue |-> queue, keys |-> keys]
    ELSE IF Key(Head(reqs)) \in keys THEN addRequests(queue, keys, Tail(reqs))
    ELSE addRequests(Append(queue, Head(reqs)), keys \cup {Key(Head(reqs))}, Tail(reqs))

\* The handler invocation h, now in state wk, runs on from `phase` at index i
\* until its next await and starts the awaited call, or returns.
Continue(h, wk, phase, i, jc, pids) ==
    LET stop == Advance(wk, phase, i, jc, pids)
        added == addRequests(frontier, seen, Requested(wk, stop))
    IN /\ jobsCollected' = jc
       /\ processedIds' = pids
       /\ sink' = IF stop.pc \in PushPcs THEN sink \cup {finalJob(wk, stop)} ELSE sink
       /\ frontier' = added.queue
       /\ seen' = added.keys
       /\ inflight' = (inflight \ {h}) \cup
                         (IF stop.pc = "end" THEN {}
                          ELSE {[wk EXCEPT !.pc = stop.pc, !.i = stop.i]})

\* ------------------------------------------------------------------------
\* The crawler
\* ------------------------------------------------------------------------
\* The session pool hands out a session that is not retired.
Usable == Sessions \ retired
Offered == {s \in Usable : \A r \in Usable : s <= r}

\* The crawler takes the first request of the queue and starts fetching it,
\* while fewer than maxConcurrency requests are in flight.  page is the
\* document the fetch will deliver to the handler.
Dispatch ==
    /\ run = "running"
    /\ frontier # <<>>
    /\ Cardinality(inflight) < maxConcurrency
    /\ attempts < budget
    /\ \E s \in Offered, doc \in Served(Head(frontier)) :
         inflight' = inflight \cup
                        {[pc |-> "fetching", task |-> Head(frontier), page |-> doc,
                          sess |-> s, att |-> attempts + 1, i |-> 0]}
    /\ frontier' = Tail(frontier)
    /\ attempts' = attempts + 1
    /\ visited' = visited \cup {Key(Head(frontier))}
    /\ UNCHANGED <<RESULTS_WANTED, maxRequestRetries, site, jobsCollected,
                   processedIds, sink, seen, retired, budget, run, input, summary>>

\* A requestHandler that begins at line 236, without the check of the
\* counter at lines 231-234.
requestHandlerUnguarded(h) ==
    /\ h.pc = "fetching"
    /\ h.page.error = {}
    /\ IF challengeDetected(h.page)
       THEN /\ retired' = retired \cup {h.sess}
            /\ inflight' = (inflight \ {h}) \cup {[h EXCEPT !.pc = "challenge_delay"]}
            /\ UNCHANGED <<jobsCollected, processedIds, sink, frontier, seen>>
       ELSE /\ Continue(h, h, "jsonld", 1, jobsCollected, processedIds)
            /\ UNCHANGED retired
    /\ UNCHANGED <<RESULTS_WANTED, maxRequestRetries, site, attempts, visited, budget, run, input, summary>>

\* requestHandler, from its start to its first await.
requestHandler(h) ==
    /\ h.pc = "fetching"
    /\ h.page.error = {}
    /\ LET wk == h IN
         IF jobsCollected >= RESULTS_WANTED
         THEN /\ inflight' = inflight \ {h}
              /\ UNCHANGED <<jobsCollected, processedIds, sink, frontier, seen, retired>>
         ELSE IF challengeDetected(wk.page)
         THEN /\ retired' = retired \cup {wk.sess}
              /\ inflight' = (inflight \ {h}) \cup {[wk EXCEPT !.pc = "challenge_delay"]}
              /\ UNCHANGED <<jobsCollected, processedIds, sink, frontier, seen>>
         ELSE /\ Continue(h, wk, "jsonld", 1, jobsCollected, processedIds)
              /\ UNCHANGED retired
    /\ UNCHANGED <<RESULTS_WANTED, maxRequestRetries, site, attempts, visited, budget, run, input, summary>>

\* After "await Dataset.pushData(finalJob)": count, mark, go on.
AfterPush(h) ==
    /\ h.pc \in PushPcs
    /\ Continue(h, h,
                CASE h.pc = "push_jsonld" -> "jsonld"
                  [] h.pc = "push_appstate" -> "appstate"
                  [] h.pc = "push_text" -> "text",
                h.i + 1, jobsCollected + 1,
                processedIds \cup {JobAt(h, Stop(h.pc, h.i)).id})
    /\ UNCHANGED <<RESULTS_WANTED, maxRequestRetries, site, retired, attempts, visited, budget, run, input, summary>>

\* After "await crawler.addRequests([...])" for a DETAIL request: next card.
AfterAddDetail(h) ==
    /\ h.pc = "add_detail"
    /\ Continue(h, h, "dom", h.i + 1, jobsCollected, processedIds)
    /\ UNCHANGED <<RESULTS_WANTED, maxRequestRetries, site, retired, attempts, visited, budget, run, input, summary>>

\* After the addRequests of the pagination step the handler returns.
AfterAddList(h) ==
    /\ h.pc \in {"add_next", "add_alt"}
    /\ inflight' = inflight \ {h}
    /\ UNCHANGED <<RESULTS_WANTED, maxRequestRetries, site, jobsCollected, processedIds,
                   sink, frontier, seen, retired, attempts, visited, budget, run, input, summary>>

\* The request of h as the crawler puts it back after a failed attempt whose
\* error message holds `words`.
RetryOf(h, words) ==
    [h.task EXCEPT !.retries = @ + 1, !.last = [sess |-> h.sess, error |-> words]]

\* A crawler that still retries a request whose retryCount has reached
\* maxRequestRetries.
ReclaimOnceMore(h, words) ==
    IF h.task.retries <= maxRequestRetries
    THEN /\ frontier' = Append(frontier, RetryOf(h, words))
         /\ inflight' = inflight \ {h}
    ELSE /\ inflight' = (inflight \ {h}) \cup {[h EXCEPT !.pc = "failed"]}
         /\ UNCHANGED frontier

\* The crawler on a failed attempt: the request goes back to the queue with
\* retryCount + 1 while retryCount is below maxRequestRetries, and
\* failedRequestHandler is called otherwise.
Reclaim(h, words) ==
    IF h.task.retries < maxRequestRetries
    THEN /\ frontier' = Append(frontier, RetryOf(h, words))
         /\ inflight' = inflight \ {h}
    ELSE /\ inflight' = (inflight \ {h}) \cup {[h EXCEPT !.pc = "failed"]}
         /\ UNCHANGED frontier

\* After the delay of the challenge path: throw new Error('CHALLENGE_DETECTED').
ThrowChallenge(h) ==
    /\ h.pc = "challenge_delay"
    /\ Reclaim(h, {"CHALLENGE_DETECTED"})
    /\ UNCHANGED <<RESULTS_WANTED, maxRequestRetries, site, jobsCollected, processedIds,
                   sink, seen, retired, attempts, visited, budget, run, input, summary>>

\* The fetch of h fails: no handler of main.js runs on the attempt.  The
\* session pool may retire the session on its own account or keep it.
FetchFailed(h) ==
    /\ h.pc = "fetching"
    /\ h.page.error # {}
    /\ Reclaim(h, h.page.error)
    /\ \E poolRetires \in BOOLEAN :
          retired' = IF poolRetires THEN retired \cup {h.sess} ELSE retired
    /\ UNCHANGED <<RESULTS_WANTED, maxRequestRetries, site, jobsCollected, processedIds,
                   sink, seen, attempts, visited, budget, run, input, summary>>

\* error.message of the error failedRequestHandler is given for h
ErrorOf(h) == IF h.page.error # {} THEN h.page.error ELSE {"CHALLENGE_DETECTED"}

FailedDelays == {"10-20s", "3-6s", "15-30s", "5-10s", "2-5s"}

\* The if / else if chain of failedRequestHandler: the delay it awaits and
\* whether it calls session.retire().
FailurePolicy(words) ==
    IF "CHALLENGE_DETECTED" \in words THEN [delay |-> "10-20s", retire |-> TRUE]
    ELSE IF words \cap {"timeout", "ETIMEDOUT"} # {} THEN [delay |-> "3-6s", retire |-> FALSE]
    ELSE IF words \cap {"403", "blocked", "429"} # {} THEN [delay |-> "15-30s", retire |-> TRUE]
    ELSE IF words \cap {"500", "502", "503"} # {} THEN [delay |-> "5-10s", retire |-> FALSE]
    ELSE IF words \cap {"ECONNRESET", "ENOTFOUND"} # {} THEN [delay |-> "2-5s", retire |-> FALSE]
    ELSE [delay |-> "none", retire |-> FALSE]

\* failedRequestHandler, from its start to its await (or to its end).
failedRequestHandler(h) ==
    /\ h.pc = "failed"
    /\ LET policy == FailurePolicy(ErrorOf(h)) IN
         /\ retired' = IF policy.retire THEN retired \cup {h.sess} ELSE retired
         /\ inflight' = (inflight \ {h}) \cup
                           (IF policy.delay = "none" THEN {}
                            ELSE {[h EXCEPT !.pc = policy.delay]})
    /\ UNCHANGED <<RESULTS_WANTED, maxRequestRetries, site, jobsCollected, processedIds,
                   sink, frontier, seen, attempts, visited, budget, run, input, summary>>

\* failedRequestHandler returns after its delay; the request is dropped.
AfterFailedDelay(h) ==
    /\ h.pc \in FailedDelays
    /\ inflight' = inflight \ {h}
    /\ UNCHANGED <<RESULTS_WANTED, maxRequestRetries, site, jobsCollected, processedIds,
                   sink, frontier, seen, retired, attempts, visited, budget, run, input, summary>>

\* crawler.run resolves when the queue is empty and no handler is in flight.
Finish ==
    /\ run = "running"
    /\ frontier = <<>>
    /\ inflight = {}
    /\ run' = "finished"
    /\ summary' = <<jobsCollected, RESULTS_WANTED>>
    /\ UNCHANGED <<RESULTS_WANTED, maxRequestRetries, site, jobsCollected, processedIds,
                   sink, frontier, seen, inflight, retired, attempts, visited, budget, input>>

\* ------------------------------------------------------------------------
\* The handler added with crawler.router.addHandler('DETAIL', ...)
\* ------------------------------------------------------------------------
\* The two checks of the DETAIL handler: 'form[action*="sorry"]' (indicator 1)
\* and 'div:contains("unusual traffic")' (indicator 2).
detailIndicators == {1, 2}
detailChallenge(page) == page.markers \cap detailIndicators # {}

\* detailTitle: the heading of the page if longer than 5, else the seed's.
detailTitle(seed, page) ==
    IF page.dtitle # "" /\ Len(page.dtitle) > 5 THEN page.dtitle ELSE seed.title

\* detailCompany: the page's company text of 2..99 characters, else the seed's.
detailCompany(seed, page) ==
    IF page.dcompany # "" /\ Len(page.dcompany) > 1 /\ Len(page.dcompany) < 100
    THEN page.dcompany ELSE seed.company

detailJob(wk) ==
    LET seed == wk.task.seed
        title == detailTitle(seed, wk.page)
        company == detailCompany(seed, wk.page)
    IN [id |-> seed.id, p |-> seed.p,
        title |-> IF title # "" THEN title ELSE seed.title,
        company |-> IF company # "" THEN company ELSE seed.company,
        method |-> "detail", att |-> wk.att, scrapedUrl |-> loadedUrl(wk)]

\* The DETAIL handler, from its start to "await Dataset.pushData(finalJob)".
DetailHandler(h) ==
    /\ h.pc = "fetching"
    /\ h.page.error = {}
    /\ h.task.label = "DETAIL"
    /\ LET wk == h IN
         IF jobsCollected >= RESULTS_WANTED \/ h.task.seed.id \in processedIds
         THEN /\ inflight' = inflight \ {h}
              /\ UNCHANGED <<sink, retired>>
         ELSE IF detailChallenge(wk.page)
         THEN /\ retired' = retired \cup {h.sess}
              /\ inflight' = inflight \ {h}
              /\ UNCHANGED sink
         ELSE IF detailJob(wk).title # "" /\ Len(detailJob(wk).title) > 3
         THEN /\ sink' = sink \cup {detailJob(wk)}
              /\ inflight' = (inflight \ {h}) \cup {[wk EXCEPT !.pc = "push_detail"]}
              /\ UNCHANGED retired
         ELSE /\ inflight' = inflight \ {h}
              /\ UNCHANGED <<sink, retired>>
    /\ UNCHANGED <<RESULTS_WANTED, maxRequestRetries, site, jobsCollected, processedIds,
                   frontier, seen, attempts, visited, budget, run, input, summary>>

\* After the pushData of the DETAIL handler: count, mark, return.
AfterDetailPush(h) ==
    /\ h.pc = "push_detail"
    /\ jobsCollected' = jobsCollected + 1
    /\ processedIds' = processedIds \cup {h.task.seed.id}
    /\ inflight' = inflight \ {h}
    /\ UNCHANGED <<RESULTS_WANTED, maxRequestRetries, site, sink, frontier, seen,
                   retired, attempts, visited, budget, run, input, summary>>

\* requestHandler for the requests the router has no handler for
ListHandler(h) ==
    /\ h.task.label # "DETAIL"
    /\ requestHandler(h)

Next ==
    \/ Dispatch
    \/ \E h \in inflight : requestHandler(h)
    \/ \E h \in inflight : AfterPush(h)
    \/ \E h \in inflight : AfterAddDetail(h)
    \/ \E h \in inflight : AfterAddList(h)
    \/ \E h \in inflight : ThrowChallenge(h)
    \/ \E h \in inflight : FetchFailed(h)
    \/ \E h \in inflight : failedRequestHandler(h)
    \/ \E h \in inflight : AfterFailedDelay(h)
    \/ Finish

Spec == Init /\ [][Next]_vars

\* The run with a crawler whose run() may reject: the catch block logs the
\* error and throws it again, and Actor.exit() ends the process with every
\* handler that was still in flight.
CrawlRejects ==
    /\ run = "running"
    /\ run' = "failed"
    /\ inflight' = {}
    /\ UNCHANGED <<RESULTS_WANTED, maxRequestRetries, site, jobsCollected, processedIds,
                   sink, frontier, seen, retired, attempts, visited, budget, input, summary>>

NextRun ==
    \/ Next
    \/ CrawlRejects

\* The run with awaited calls that may fail: crawler.addRequests rejects, or
\* the handler exceeds requestHandlerTimeoutSecs while it waits; the crawler
\* treats the attempt as failed.
HandlerThrows(h) ==
    /\ h.pc \in {"add_detail", "add_next", "add_alt"}
    /\ Reclaim(h, {"other"})
    /\ UNCHANGED <<RESULTS_WANTED, maxRequestRetries, site, jobsCollected, processedIds,
                   sink, seen, retired, attempts, visited, budget, run, input, summary>>

FlakySites ==
    { Site({OneJobDoc, BlankDoc}, {DetailDoc}),
      Site({UnusualDoc}, {DetailDoc}),
      Site({RateLimitedDoc}, {DetailDoc}) }

InitFlaky ==
    /\ RESULTS_WANTED = MaxQuota
    /\ maxRequestRetries = MaxRetries
    /\ site \in FlakySites
    /\ budget = MaxDispatch + 1
    /\ Start

NextFlaky ==
    \/ Next
    \/ \E h \in inflight : HandlerThrows(h)

SpecFlaky == InitFlaky /\ [][NextFlaky]_vars

\* The start of the program: the input is read and checked, RESULTS_WANTED
\* is computed, and crawler.run is called with the initial requests.
Keywords == {Undefined, Null, Str(""), Str("nurse"), Str("rn")}
Wanted == {Undefined, Null, Str(""), Str("2"), Str("many"), Infinity}
              \cup {Half(k) : k \in (0 - 2)..(2 * MaxQuota + 2)}

Dates == {Undefined, Str("anytime"), Str("today"), Str("3days"), Str("week"),
          Str("month"), Str("24h"), Str("7d"), Str("30d")}

InitInput ==
    /\ input \in [keyword : Keywords, results_wanted : Wanted, posted_date : Dates]
    /\ RESULTS_WANTED = Undefined
    /\ maxRequestRetries = MaxRetries
    /\ site \in FairSites
    /\ budget = MaxDispatch
    /\ jobsCollected = 0
    /\ processedIds = {}
    /\ sink = {}
    /\ frontier = <<>>
    /\ seen = {}
    /\ inflight = {}
    /\ retired = {}
    /\ attempts = 0
    /\ visited = {}
    /\ run = "starting"
    /\ summary = <<>>

\* Lines 11-27: a falsy keyword throws, otherwise RESULTS_WANTED is set.
ReadInput ==
    /\ run = "starting"
    /\ IF Truthy(Default(input.keyword, Str("")))
       THEN /\ RESULTS_WANTED' = ResultsWanted(input.results_wanted)
            /\ run' = "configured"
       ELSE /\ run' = "rejected"
            /\ UNCHANGED RESULTS_WANTED
    /\ UNCHANGED <<maxRequestRetries, site, jobsCollected, processedIds, sink, frontier,
                   seen, inflight, retired, attempts, visited, budget, input, summary>>

\* crawler.run(initialRequests)
RunCrawler ==
    /\ run = "configured"
    /\ frontier' = buildStartUrls(Default(input.posted_date, Str("anytime")))
    /\ seen' = {Key(initialRequests[v]) : v \in 1..NumVariants}
    /\ run' = "running"
    /\ UNCHANGED <<RESULTS_WANTED, maxRequestRetries, site, jobsCollected, processedIds,
                   sink, inflight, retired, attempts, visited, budget, input, summary>>

NextInput ==
    \/ ReadInput
    \/ RunCrawler

SpecInput == InitInput /\ [][NextInput]_vars

\* The same crawler with every DETAIL request handled by the DETAIL handler.

InitRouted ==
    /\ RESULTS_WANTED \in 1..MaxQuota
    /\ maxRequestRetries = MaxRetries
    /\ site \in RoutedSites
    /\ budget = MaxDispatch + 1
    /\ Start

NextRouted ==
    \/ Dispatch
    \/ \E h \in inflight : ListHandler(h)
    \/ \E h \in inflight : DetailHandler(h)
    \/ \E h \in inflight : AfterPush(h)
    \/ \E h \in inflight : AfterAddDetail(h)
    \/ \E h \in inflight : AfterAddList(h)
    \/ \E h \in inflight : AfterDetailPush(h)
    \/ \E h \in inflight : ThrowChallenge(h)
    \/ \E h \in inflight : FetchFailed(h)
    \/ \E h \in inflight : failedRequestHandler(h)
    \/ \E h \in inflight : AfterFailedDelay(h)
    \/ Finish

SpecRouted == InitRouted /\ [][NextRouted]_vars

\* The event loop runs a dispatch or a resumed handler whenever one can run.
InitFair ==
    /\ RESULTS_WANTED = MaxQuota
    /\ maxRequestRetries = MaxRetries
    /\ site \in FairSites
    /\ budget = MaxDispatch
    /\ Start
SpecFair == InitFair /\ [][Next]_vars /\ WF_vars(Next)
SpecRun == InitFair /\ [][NextRun]_vars /\ WF_vars(NextRun)

\* ------------------------------------------------------------------------
\* Properties
\* ------------------------------------------------------------------------
\* The configured ceiling on LIST pages of the specification's run
\* configuration (section 8 uses 2); main.js reads no such input.
pageCeiling == 2

ListVisited == {k \in visited : k[1] = "LIST"}
Pushing == {h \in inflight : h.pc \in PushPcs \cup {"push_detail"}}

\* C1: with up to maxConcurrency handlers in flight, neither the number of
\* records given to the sink nor jobsCollected ever exceeds RESULTS_WANTED.
C1_QuotaNeverExceeded ==
    /\ Cardinality(sink) <= RESULTS_WANTED
    /\ jobsCollected <= RESULTS_WANTED

C3_OneRecordPerListing ==
    \A r1, r2 \in sink : r1.p = r2.p => r1 = r2

\* C4: the number of LIST tasks dispatched never exceeds the page ceiling.
C4_ListTasksWithinCeiling ==
    Cardinality(ListVisited) <= pageCeiling

\* C5: whatever the 'start' value of the loaded URL (missing, negative,
\* non-numeric), a LIST request that the pagination step hands to
\* addRequests, taken from a next-page link or built as current + 10, has
\* an offset strictly greater than the current one, and every LIST task
\* that enters the queue during the run is such a request.
C5_NextOffsetGreater ==
    [][/\ \A h \in inflight' \ inflight : h.pc = "add_next" =>
             \A r \in Range(Requested(h, Stop(h.pc, h.i))) :
                /\ r.label = "LIST"
                /\ Key(r) \in seen'
                /\ Greater(ParseStart(r.start), currentStart(h))
       /\ \A k \in seen' \ seen : k[1] = "LIST" =>
             \E h \in inflight' \ inflight :
                h.pc = "add_next" /\ Greater(ParseStart(k[3]), currentStart(h))]_vars

\* A page loaded at a negative offset has queued the link that leads further.
C5_Witness ==
    \E h \in inflight :
       /\ h.pc = "add_next"
       /\ currentStart(h) = Num(-10)
       /\ h.page.next = <<Dec(-20), Dec(0)>>
       /\ <<"LIST", VariantOf(h.task), Dec(0), "">> \in seen

\* requestHandler starts on h, a LIST page without a job, quota unmet.
EmptyPageHandled(h) ==
    /\ h.pc = "fetching" /\ h.task.label = "LIST"
    /\ h.page.error = {}
    /\ jobsCollected < RESULTS_WANTED
    /\ ~challengeDetected(h.page)
    /\ NoCandidates(h)

IsPrefix(s, t) == Len(s) <= Len(t) /\ SubSeq(t, 1, Len(s)) = s

\* C6: a handler step on a LIST page where no strategy finds a job adds no
\* request to the queue.
C6_NoFollowUpFromEmptyPage ==
    [][\A h \in inflight \ inflight' : EmptyPageHandled(h) => seen' = seen]_vars

\* C7: on a LIST page without a job the handler still runs the pagination
\* step (the next page it resolves is handed to addRequests), the run goes
\* on with the queue intact, and the seed variants still waiting in the queue
\* are all dispatched afterwards.
C7_EmptyPageDoesNotStopRun ==
    /\ [][\A h \in inflight \ inflight' : EmptyPageHandled(h) =>
             /\ run' = "running"
             /\ IsPrefix(frontier, frontier')
             /\ nextPageLink(h) # NoLink =>
                   /\ [h EXCEPT !.pc = "add_next", !.i = 1] \in inflight'
                   /\ Key(ListTask(VariantOf(h.task), nextPageLink(h), FALSE)) \in seen']_vars
    /\ (\E h \in inflight : h.pc = "add_next" /\ NoCandidates(h))
          ~> (run = "running" /\ \A v \in 1..NumVariants :
                                    Key(ListTask(v, Absent, TRUE)) \in visited)

\* The first seed page had no job, its next page is queued, and the last
\* seed variant, waiting at that moment, has been dispatched since.
C7_Witness ==
    /\ \E h \in inflight : h.pc = "add_next" /\ NoCandidates(h) /\ h.att = 1
    /\ Key(ListTask(NumVariants, Absent, TRUE)) \in visited
    /\ run = "running"

\* The handler of h has begun its work on the page: neither the quota guard
\* nor, for a DETAIL task given to the DETAIL handler, the ledger stopped it.
Began(h) ==
    /\ h.pc = "fetching"
    /\ h.page.error = {}
    /\ jobsCollected < RESULTS_WANTED

C10_StrategiesExclusive ==
    \A h \in inflight :
       /\ h.pc = "push_appstate" => Len(JsonLdJobs(h)) = 0
       /\ h.pc = "add_detail" => Len(JsonLdJobs(h)) = 0 /\ Len(AppStateJobs(h)) = 0

\* C11: a handler pushes a job of the text fallback only for a document in
\* which JSON-LD, the application state and the job cards gave nothing, and
\* with the quota unmet when it pushes; the fallback yields at most
\* MaxTextJobs jobs for a document, all its patterns together.
C11_TextFallbackLastAndBounded ==
    [][\A h \in inflight' \ inflight : h.pc = "push_text" =>
          /\ Len(JsonLdJobs(h)) = 0 /\ Len(AppStateJobs(h)) = 0
          /\ Len(h.page.cards) = 0
          /\ jobsCollected' < RESULTS_WANTED
          /\ Len(TextJobs(h)) <= MaxTextJobs
          /\ h.i <= MaxTextJobs]_vars

\* A handler pushes a text job of a page on which the patterns match more
\* than MaxTextJobs times, none of them more than MaxTextJobs times.
C11_Witness ==
    \E h \in inflight :
       /\ h.pc = "push_text"
       /\ Len(h.page.text) > 1
       /\ \A k \in 1..Len(h.page.text) : Len(h.page.text[k]) <= MaxTextJobs
       /\ Len(h.page.text[1]) + Len(h.page.text[2]) > MaxTextJobs
       /\ Len(TextJobs(h)) = MaxTextJobs

\* C12: every record given to the sink, by whichever strategy, has a title
\* that is not empty and is longer than 3 characters.
C12_EmittedTitleLongEnough ==
    \A r \in sink : r.title # "" /\ Len(r.title) > 3

\* C13: no record given to the sink has a title that contains "search" or
\* "next page" or that is only a relative time such as "3 days ago".
C13_EmittedTitleSanitized ==
    \A r \in sink :
       /\ ~Includes(r.title, "search")
       /\ ~Includes(r.title, "next page")
       /\ ~IsRelativeTime(r.title)

AttemptFails(h) ==
    \/ h.pc = "challenge_delay"
    \/ h.pc = "fetching" /\ h.page.error # {}

Waiting == {Key(frontier[k]) : k \in 1..Len(frontier)}
Flying == {Key(h.task) : h \in inflight}

RateLimitWords == {"403", "blocked", "429"}
RotatingWords == RateLimitWords \cup {"CHALLENGE_DETECTED"}

\* C16: whenever an attempt of a request begins after an attempt that
\* failed as rate limited (403, 429, blocked) or as a challenge, the session
\* of the failed attempt has been retired.
C16_SessionRetiredBeforeRetry ==
    \A h \in inflight :
       (/\ h.task.retries > 0
        /\ h.task.last.error \cap RotatingWords # {}) =>
          h.task.last.sess \in retired

\* The classes whose marker error.message contains.
Classes(words) ==
    {c \in {"CHALLENGE", "TIMEOUT", "RATE_LIMITED", "SERVER_ERROR", "CONNECTION_ERROR"} :
        \/ c = "CHALLENGE" /\ "CHALLENGE_DETECTED" \in words
        \/ c = "TIMEOUT" /\ words \cap {"timeout", "ETIMEDOUT"} # {}
        \/ c = "RATE_LIMITED" /\ words \cap RateLimitWords # {}
        \/ c = "SERVER_ERROR" /\ words \cap {"500", "502", "503"} # {}
        \/ c = "CONNECTION_ERROR" /\ words \cap {"ECONNRESET", "ENOTFOUND"} # {}}

\* C17: failedRequestHandler awaits the delay of the failure's class and
\* retires the session exactly for CHALLENGE and RATE_LIMITED: a message of
\* one class gets that class's delay (none when it has no marker), and every
\* message with a rate-limit marker retires the session, whatever other
\* marker it contains.
C17_OnePolicyPerClass ==
    [][\A h \in inflight \ inflight' : h.pc = "failed" =>
          LET cs == Classes(ErrorOf(h))
              after == {g \in inflight' \ inflight : g.task = h.task}
              Delayed(d) == after = {[h EXCEPT !.pc = d]}
          IN /\ cs = {"CHALLENGE"} => Delayed("10-20s") /\ h.sess \in retired'
             /\ cs = {"RATE_LIMITED"} => Delayed("15-30s")
             /\ "RATE_LIMITED" \in cs => h.sess \in retired'
             /\ cs = {"SERVER_ERROR"} => Delayed("5-10s") /\ retired' = retired
             /\ cs = {"TIMEOUT"} => Delayed("3-6s") /\ retired' = retired
             /\ cs = {"CONNECTION_ERROR"} => Delayed("2-5s") /\ retired' = retired
             /\ cs = {} => after = {} /\ retired' = retired]_vars

\* C18: a run that has ended has no handler in flight and has logged the
\* number of records collected against the number wanted, whether the
\* crawl resolved or was rejected; and under fair scheduling every run ends
\* (or uses up the dispatches explored).
C18_TerminatesAndReports ==
    /\ [](run # "running" =>
             /\ inflight = {}
             /\ summary = <<jobsCollected, RESULTS_WANTED>>)
    /\ <>(run # "running" \/ attempts = budget)

\* C19: with a missing or empty keyword the program throws before the
\* crawler runs: it goes from its start to "rejected" and nowhere else, and
\* the queue, the requests in flight, the dataset, jobsCollected and
\* processedIds are as at the start.
C19_MissingKeywordRejected ==
    /\ [](input.keyword \in {Undefined, Null, Str("")} =>
             /\ run \in {"starting", "rejected"}
             /\ frontier = <<>> /\ seen = {} /\ inflight = {}
             /\ attempts = 0 /\ visited = {}
             /\ sink = {} /\ jobsCollected = 0 /\ processedIds = {})
    /\ [][input.keyword \in {Undefined, Null, Str("")} /\ run = "starting"
              => run' = "rejected"]_vars

\* An empty keyword has been rejected.
C19_Witness ==
    /\ input.keyword = Str("")
    /\ run = "rejected"

\* C20: once computed, RESULTS_WANTED is a positive integer or
\* MAX_SAFE_INTEGER: 100 for an absent results_wanted, MAX_SAFE_INTEGER for
\* one that is not a finite number, 1 for null and for numbers below 1.
C20_QuotaPositiveInteger ==
    run \in {"configured", "running"} =>
       LET raw == input.results_wanted IN
       /\ \/ RESULTS_WANTED = MAX_SAFE_INTEGER
          \/ \E n \in 1..DefaultResults : RESULTS_WANTED = Count(n)
       /\ raw = Undefined => RESULTS_WANTED = Count(DefaultResults)
       /\ raw \in {Infinity, Str("many")} => RESULTS_WANTED = MAX_SAFE_INTEGER
       /\ raw = Null \/ (raw.type = "number" /\ raw.fin /\ raw.twice < 2) =>
             RESULTS_WANTED = Count(1)

\* Every LIST document of the site is fetched without error, shows no
\* challenge and carries a JSON-LD posting with a title: the NumVariants
\* seed pages alone offer more candidates than any quota up to MaxQuota.
OffersEnough ==
    \A doc \in site.list :
       /\ doc.error = {}
       /\ ~challengeDetected(doc)
       /\ \E k \in 1..Len(doc.jsonld) : doc.jsonld[k].title # ""

\* C21: a run over pages that offer at least RESULTS_WANTED candidates,
\* with no failed fetch, ends with exactly RESULTS_WANTED records in the
\* dataset.
C21_ExactlyQuotaEmitted ==
    (run = "finished" /\ OffersEnough) => Cardinality(sink) = RESULTS_WANTED

\* C22: once jobsCollected has reached RESULTS_WANTED, no step adds a
\* request under a new URL to the queue and no step takes a request from
\* the queue to fetch it.
C22_QuotaClosesFrontier ==
    [][jobsCollected >= RESULTS_WANTED =>
          /\ seen' = seen
          /\ attempts' = attempts /\ visited' = visited]_vars

\* The value of 'chips' for the period that a value of posted_date listed in
\* the README stands for.
Period(date) ==
    IF date = Str("today") THEN "date_posted:r_86400"
    ELSE IF date = Str("3days") THEN "date_posted:r_259200"
    ELSE IF date = Str("week") THEN "date_posted:r_604800"
    ELSE IF date = Str("month") THEN "date_posted:r_2592000"
    ELSE ""

\* C23: for every posted_date the README lists, the first start URL carries
\* the 'chips' parameter of that period, and none for 'anytime'.
C23_PostedDateSelectsFilter ==
    (/\ run = "running"
     /\ input.posted_date \in {Str("anytime"), Str("today"), Str("3days"),
                               Str("week"), Str("month")}) =>
       frontier[1].chips = Period(input.posted_date)

\* The handler invocations waiting in the addRequests of the pagination step.
ListAdders(flying) == {h \in flying : h.pc \in {"add_next", "add_alt"}}

\* C24: a LIST request enters the queue under a new URL only in the pagination
\* step of a handler whose own request is not labelled DETAIL, and that
\* step is the last thing the invocation does: when it resumes it ends
\* without another record, DETAIL request or change of the counters.
C24_PaginationAfterExtraction ==
    /\ [](\A h \in ListAdders(inflight) : h.task.label # "DETAIL")
    /\ [][/\ \A h \in ListAdders(inflight) \ inflight' :
                /\ \A g \in inflight' : g.att # h.att
                /\ sink' = sink /\ seen' = seen /\ frontier' = frontier
                /\ jobsCollected' = jobsCollected /\ processedIds' = processedIds
          /\ (\E k \in seen' \ seen : k[1] = "LIST") =>
                \E g \in ListAdders(inflight') \ inflight :
                   /\ g.task.label # "DETAIL"
                   /\ \A k \in seen' \ seen : k[1] = "LIST"]_vars

\* A handler has handed a DETAIL request for a card of its page to
\* addRequests and now waits in the addRequests of the next page.
C24_Witness ==
    \E h \in inflight :
       /\ h.pc = "add_next"
       /\ \E k \in 1..Len(frontier) :
             /\ frontier[k].label = "DETAIL"
             /\ frontier[k].seed.id.att = h.att

\* C25: no LIST request whose 'start' is greater than 1000 ever enters the
\* queue, be its URL taken from a next-page link or built as current + 10.
C25_OffsetBounded ==
    \A k \in seen : (k[1] = "LIST" /\ k[3].kind = "int") => k[3].n <= MaxStart

\* C26: requestHandler, started on a fetched LIST page with the quota unmet,
\* takes the challenge path (session retired, no record, no request, wait
\* and throw) exactly when one of the eleven indicators matches the body or
\* the loaded URL is on sorry.google.com or consent.google.com; otherwise
\* it retires nothing and goes on to extraction.
C26_ChallengeIffMarkerOrGate ==
    [][\A h \in inflight \ inflight' :
          (Began(h) /\ h.task.label = "LIST") =>
             IF \/ \E m \in 1..NumMarkers : m \in h.page.markers
                \/ h.page.host \in {"sorry.google.com", "consent.google.com"}
             THEN /\ [h EXCEPT !.pc = "challenge_delay"] \in inflight'
                  /\ h.sess \in retired'
                  /\ sink' = sink /\ seen' = seen /\ frontier' = frontier
             ELSE /\ \A g \in inflight' : g.att = h.att => g.pc # "challenge_delay"
                  /\ retired' = retired
                  /\ Continue(h, h, "jsonld", 1, jobsCollected, processedIds)]_vars

\* A LIST page on which the single indicator 'unusual traffic' matched is on
\* the challenge path.
C26_Witness ==
    \E h \in inflight :
       /\ h.pc = "challenge_delay"
       /\ h.task.label = "LIST"
       /\ h.page.markers = {2}
       /\ h.page.host = "www.google.com"
       /\ h.sess \in retired

\* C27: a fetched DETAIL request with the quota unmet, a seed id not in
\* processedIds, no challenge and a merged title longer than 3 characters
\* is handled by the DETAIL handler: its step gives the merged record of
\* seed and detail page to the dataset and waits in pushData.
C27_DetailTasksGetDetailHandler ==
    [][\A h \in inflight \ inflight' :
          (/\ Began(h) /\ h.task.label = "DETAIL"
           /\ h.task.seed.id \notin processedIds
           /\ ~detailChallenge(h.page)
           /\ Len(detailJob(h).title) > 3) =>
             /\ sink' = sink \cup {detailJob(h)}
             /\ [h EXCEPT !.pc = "push_detail"] \in inflight']_vars

\* C28: the dataset never holds records of one posting scraped from the
\* same URL by two attempts: a retry of a request adds no second copy of
\* what an earlier attempt of that request has pushed.
C28_RetryDoesNotReEmit ==
    \A r1, r2 \in sink :
       (r1.p = r2.p /\ r1.scrapedUrl = r2.scrapedUrl) => r1.att = r2.att

\* The handler invocations suspended in "await Dataset.pushData(finalJob)".
Suspended == {h \in inflight : h.pc \in PushPcs \cup {"push_detail"}}

C30_StartAtQuotaIsNoOp ==
    [][\A h \in inflight \ inflight' :
          (h.pc = "fetching" /\ h.page.error = {} /\ jobsCollected >= RESULTS_WANTED) =>
             /\ jobsCollected' = jobsCollected /\ processedIds' = processedIds
             /\ sink' = sink /\ frontier' = frontier /\ seen' = seen
             /\ retired' = retired
             /\ inflight' = inflight \ {h}]_vars

\* On a site whose result pages hold a text job or a challenge, a handler
\* that starts below the quota pushes a record at once or retires its
\* session.  With no session retired, an attempt that is over and has left
\* no record started when the quota was reached; a fetched challenge page
\* waits for its handler in the same state.
C30_Witness ==
    /\ jobsCollected >= RESULTS_WANTED
    /\ site.list = {TextDoc, UnusualDoc}
    /\ retired = {}
    /\ \E a \in 1..attempts :
          /\ \A r \in sink : r.att # a
          /\ \A h \in inflight : h.att # a
    /\ \E h \in inflight : h.pc = "fetching" /\ challengeDetected(h.page)

=============================================================================
